---- MODULE Spec2Model ----
(***************************************************************************)
(* Ranking and context-assembly core of the memory service:                *)
(*   services/memory/src/services/ranking.py                               *)
(*   services/memory/src/services/context_assembly.py                      *)
(*                                                                         *)
(* Numbers.  The code computes in floating point; the model computes in    *)
(* fixed point, each quantity in the unit given where it is defined:       *)
(*   cosine_similarity, importance, access_bonus   hundredths   (1e-2)     *)
(*   temporal_decay                                millionths   (1e-6)     *)
(*   the weighted sum of combined_relevance        1e-8                    *)
(*   relevance_score, cosine of two embeddings     1e-4                    *)
(*   lambda_mmr                                    tenths                  *)
(*   mmr_score                                     1e-5                    *)
(* Time is counted in days.  A candidate is a Python dict: a function from *)
(* its keys to its values, so that a missing key is a key not in DOMAIN.   *)
(***************************************************************************)
EXTENDS Integers, Sequences, FiniteSets, TLC

VARIABLES
    now,                  \* the wall clock read by datetime.now(), in days
    pc,                   \* position of the running call
    results,              \* the list handed to rank_results / mmr_rerank
    given,                \* history: the list as it was when the call began
    scored_at,            \* history: id -> clock reading its score was computed at
    top_n,                \* mmr_rerank argument
    lambda_mmr,           \* mmr_rerank argument, tenths
    candidates,           \* mmr_rerank local: remaining candidates with embedding
    no_embed,             \* mmr_rerank local: candidates without embedding
    selected,             \* mmr_rerank local: selection so far
    selected_embeddings,  \* mmr_rerank local: embeddings of the selection
    ranked_results,       \* the list handed to assemble_context
    max_tokens,           \* assemble_context argument
    packed,               \* assemble_context local `selected`
    total_tokens,         \* assemble_context local: running token total
    ret                   \* value returned by the call

vars == <<now, pc, results, given, scored_at, top_n, lambda_mmr, candidates, no_embed,
          selected, selected_embeddings, ranked_results, max_tokens, packed,
          total_tokens, ret>>

rankVars == <<results, given, scored_at>>
mmrVars == <<top_n, lambda_mmr, candidates, no_embed, selected, selected_embeddings>>
packVars == <<ranked_results, max_tokens, packed, total_tokens>>

----------------------------------------------------------------------------
(* Generic helpers *)

Min(a, b) == IF a <= b THEN a ELSE b
Max(a, b) == IF a >= b THEN a ELSE b

\* dict.get(key, default)
Get(r, key, default) == IF key \in DOMAIN r THEN r[key] ELSE default

\* the dict with no key
EmptyDict == [k \in {} |-> 0]

\* r[key] = value after r.setdefault("cosine_similarity", 0.0): the default
\* written back into the dict
SetKeyWritingDefault(r, key, value) == (key :> value) @@ r @@ ("cosine_similarity" :> 0)

\* r[key] = value, as an in-place update of dict r
SetKey(r, key, value) == (key :> value) @@ r

\* list[-n:], the slice taken from the wrong end
TakeFromEnd(s, n) == SubSeq(s, Len(s) - Min(n, Len(s)) + 1, Len(s))

\* list[:n]
Take(s, n) == SubSeq(s, 1, Min(n, Len(s)))

\* candidates.pop(i) that leaves the list as it is
RemoveAtNothing(s, i) == s

\* list.pop(i) leaves the list without its i-th element (1-based here)
RemoveAt(s, i) == SubSeq(s, 1, i - 1) \o SubSeq(s, i + 1, Len(s))

----------------------------------------------------------------------------
(* Bounds of the model *)

\* the clock starts here: day 120, so that a candidate can be 120 days old
Epoch == 120
\* the clock advances by at most this many days
ClockSpan == 1
MaxNow == Epoch + ClockSpan
\* longest list handed to rank_results
MaxRankLen == 3
\* longest list handed to mmr_rerank, and the largest top_n
MaxMmrLen == 3
MaxTopN == 3
\* longest list handed to assemble_context, and the largest max_tokens
MaxPackLen == 3
MaxBudget == 12

----------------------------------------------------------------------------
(* ranking.py: relevance score *)

\* weights of combined_relevance, hundredths
W_SIMILARITY == 60
W_IMPORTANCE == 25
W_DECAY == 10
W_ACCESS == 5
\* cap of access_bonus (0.1), hundredths
ACCESS_CAP == 10
\* 1.0 in millionths, and in the 1e-8 unit of the weighted sum
ONE6 == 1000000
ONE8 == 100000000

\* exp(-_DECAY_LAMBDA * age_days) for a whole number of days, millionths.
\* exp(-ln(2)/30) = 0.97716 = 1 - 571/25000, applied once per day of age
\* below 30, and exp(-ln(2)) = 1/2 once per 30 days; each product is rounded
\* to the millionth.
RECURSIVE ExpDecay(_)
ExpDecay(age_days) ==
    IF age_days = 0 THEN ONE6
    ELSE IF age_days >= 30 THEN (ExpDecay(age_days - 30) + 1) \div 2
    ELSE LET d == ExpDecay(age_days - 1) IN d - (d * 571 + 12500) \div 25000

\* the least whole number of days d for which math.exp(-_DECAY_LAMBDA * d)
\* underflows to 0.0 in double precision (line 18)
EXP_UNDERFLOW_DAYS == 32251

\* temporal_decay without the max(0.0, ...) of line 17: exp of a positive
\* exponent for a created_at ahead of the clock
temporal_decay_unclamped_age(created_at, clock) ==
    IF clock - created_at >= EXP_UNDERFLOW_DAYS THEN 0
    ELSE IF clock >= created_at THEN ExpDecay(clock - created_at)
    ELSE (1000 * ONE6) \div (ExpDecay(created_at - clock) \div 1000)

\* temporal_decay on the age truncated to whole 30-day months
temporal_decay_whole_months(created_at, clock) ==
    LET age_days == Max(0, clock - created_at)
    IN  IF age_days >= EXP_UNDERFLOW_DAYS THEN 0 ELSE ExpDecay((age_days \div 30) * 30)

\* temporal_decay(created_at), with `clock` the value datetime.now() returns
\* at line 16 of this call
temporal_decay(created_at, clock) ==
    LET age_days == Max(0, clock - created_at)
    IN  IF age_days >= EXP_UNDERFLOW_DAYS THEN 0 ELSE ExpDecay(age_days)

\* access_bonus without the cap
access_bonus_uncapped(access_count) == access_count

\* access_bonus capped at 1.0 instead of 0.1
access_bonus_capped_at_one(access_count) == Min(100, access_count)

access_bonus(access_count) == Min(ACCESS_CAP, access_count)

\* round(x, 4) of a non-negative x given in 1e-8: the nearest 1e-4, a tie
\* going to the even neighbour
Round4(x) ==
    LET q == x \div 10000
        rem == x % 10000
    IN  IF rem > 5000 \/ (rem = 5000 /\ q % 2 = 1) THEN q + 1 ELSE q

\* combined_relevance without the clamp of line 45
combined_relevance_unclamped(cosine_similarity, importance, created_at, access_count, clock) ==
    LET score == W_SIMILARITY * cosine_similarity * 10000
               + W_IMPORTANCE * importance * 10000
               + W_DECAY * temporal_decay(created_at, clock)
               + W_ACCESS * access_bonus(access_count) * 10000
    IN  IF score >= 0 THEN Round4(score) ELSE 0 - Round4(0 - score)

\* combined_relevance with the clamp applied to each weighted term instead
\* of to their sum
combined_relevance_clamped_terms(cosine_similarity, importance, created_at, access_count, clock) ==
    LET Clamp(x) == Min(ONE8, Max(0, x))
    IN  Round4(Clamp(W_SIMILARITY * cosine_similarity * 10000)
               + Clamp(W_IMPORTANCE * importance * 10000)
               + Clamp(W_DECAY * temporal_decay(created_at, clock))
               + Clamp(W_ACCESS * access_bonus(access_count) * 10000))

combined_relevance(cosine_similarity, importance, created_at, access_count, clock) ==
    LET score == W_SIMILARITY * cosine_similarity * 10000
               + W_IMPORTANCE * importance * 10000
               + W_DECAY * temporal_decay(created_at, clock)
               + W_ACCESS * access_bonus(access_count) * 10000
    IN  Round4(Min(ONE8, Max(0, score)))

\* list.sort(key=..., reverse=True): a stable sort, descending by key.
\* InsertDesc puts r behind every element whose key is >= its own.
RECURSIVE InsertDesc(_, _)
InsertDesc(sorted, r) ==
    IF sorted = <<>> THEN <<r>>
    ELSE IF Head(sorted)["relevance_score"] >= r["relevance_score"]
         THEN <<Head(sorted)>> \o InsertDesc(Tail(sorted), r)
         ELSE <<r>> \o sorted

\* an insertion that puts r in front of the elements with an equal key, as
\* sorting ascending and reversing the list would
RECURSIVE InsertDescUnstable(_, _)
InsertDescUnstable(sorted, r) ==
    IF sorted = <<>> THEN <<r>>
    ELSE IF Head(sorted)["relevance_score"] > r["relevance_score"]
         THEN <<Head(sorted)>> \o InsertDescUnstable(Tail(sorted), r)
         ELSE <<r>> \o sorted

RECURSIVE SortDescUnstable(_)
SortDescUnstable(s) ==
    IF s = <<>> THEN <<>>
    ELSE InsertDescUnstable(SortDescUnstable(SubSeq(s, 1, Len(s) - 1)), s[Len(s)])

RECURSIVE SortDesc(_)
SortDesc(s) ==
    IF s = <<>> THEN <<>>
    ELSE InsertDesc(SortDesc(SubSeq(s, 1, Len(s) - 1)), s[Len(s)])

\* the loop with a cache: a candidate that already carries a score keeps it
ScoreAllCached(rs, readings) ==
    [i \in 1..Len(rs) |->
        IF "relevance_score" \in DOMAIN rs[i] THEN rs[i]
        ELSE SetKey(rs[i], "relevance_score",
               combined_relevance(Get(rs[i], "cosine_similarity", 0),
                                  Get(rs[i], "importance", 50),
                                  rs[i]["created_at"],
                                  Get(rs[i], "access_count", 0),
                                  readings[i]))]

\* the loop of rank_results with 0.0 as the default importance
ScoreAllImportanceDefaultZero(rs, readings) ==
    [i \in 1..Len(rs) |->
        SetKey(rs[i], "relevance_score",
               combined_relevance(Get(rs[i], "cosine_similarity", 0),
                                  Get(rs[i], "importance", 0),
                                  rs[i]["created_at"],
                                  Get(rs[i], "access_count", 0),
                                  readings[i]))]

\* the loop of rank_results (lines 50-56): readings[i] is the clock read
\* while scoring the i-th element
ScoreAll(rs, readings) ==
    [i \in 1..Len(rs) |->
        SetKey(rs[i], "relevance_score",
               combined_relevance(Get(rs[i], "cosine_similarity", 0),
                                  Get(rs[i], "importance", 50),
                                  rs[i]["created_at"],
                                  Get(rs[i], "access_count", 0),
                                  readings[i]))]

\* rank_results without reverse=True
rank_results_ascending(rs, readings) ==
    LET d == SortDesc(ScoreAll(rs, readings))
    IN  [i \in 1..Len(d) |-> d[Len(d) + 1 - i]]

rank_results(rs, readings) == SortDesc(ScoreAll(rs, readings))

----------------------------------------------------------------------------
(* ranking.py: MMR re-ranking *)

\* float("-inf") of line 95: below every mmr_score
NEG_INF == -1000000000

\* floor of the square root of n, searched between lo and hi
RECURSIVE SqrtBetween(_, _, _)
SqrtBetween(n, lo, hi) ==
    IF lo >= hi THEN lo
    ELSE LET mid == (lo + hi + 1) \div 2
         IN  IF mid * mid <= n THEN SqrtBetween(n, mid, hi)
             ELSE SqrtBetween(n, lo, mid - 1)

\* math.sqrt(n) in thousandths
Sqrt3(n) == SqrtBetween(n * 1000000, 0, 46340)

\* sum(x * y for x, y in zip(a, b)), a and b of equal length
RECURSIVE Dot(_, _)
Dot(a, b) == IF a = <<>> THEN 0 ELSE Head(a) * Head(b) + Dot(Tail(a), Tail(b))

\* _cosine_similarity without the length check of lines 129-130: zip stops
\* at the shorter vector, the norms are taken on the whole vectors
_cosine_similarity_zip(a, b) ==
    LET n == Min(Len(a), Len(b))
        dot == Dot(SubSeq(a, 1, n), SubSeq(b, 1, n))
        norm_a == Sqrt3(Dot(a, a))
        norm_b == Sqrt3(Dot(b, b))
        mag == IF dot >= 0 THEN dot ELSE 0 - dot
        quot == (((mag * 1000000) \div norm_a) * 10000) \div norm_b
    IN  IF norm_a = 0 \/ norm_b = 0 THEN 0
        ELSE IF dot >= 0 THEN quot ELSE 0 - quot

\* _cosine_similarity(a, b) in 1e-4; the quotient is taken on magnitudes so
\* that it is symmetric in the sign of the dot product
_cosine_similarity(a, b) ==
    IF Len(a) # Len(b) THEN 0
    ELSE LET dot == Dot(a, b)
             norm_a == Sqrt3(Dot(a, a))
             norm_b == Sqrt3(Dot(b, b))
             mag == IF dot >= 0 THEN dot ELSE 0 - dot
             quot == (((mag * 1000000) \div norm_a) * 10000) \div norm_b
         IN  IF norm_a = 0 \/ norm_b = 0 THEN 0
             ELSE IF dot >= 0 THEN quot ELSE 0 - quot

\* r.get("embedding") is not None
HasEmbedding(r) == "embedding" \in DOMAIN r

\* [r for r in results if r.get("embedding") is not None]
RECURSIVE WithEmbedding(_)
WithEmbedding(s) ==
    IF s = <<>> THEN <<>>
    ELSE (IF HasEmbedding(Head(s)) THEN <<Head(s)>> ELSE <<>>) \o WithEmbedding(Tail(s))

\* [r for r in results if r.get("embedding") is None]
RECURSIVE WithoutEmbedding(_)
WithoutEmbedding(s) ==
    IF s = <<>> THEN <<>>
    ELSE (IF HasEmbedding(Head(s)) THEN <<>> ELSE <<Head(s)>>) \o WithoutEmbedding(Tail(s))

\* max(_cosine_similarity(emb, s_emb) for s_emb in selected_embeddings)
RECURSIVE MaxOver(_, _)
MaxOver(emb, embs) ==
    IF Len(embs) = 1 THEN _cosine_similarity(emb, embs[1])
    ELSE Max(_cosine_similarity(emb, Head(embs)), MaxOver(emb, Tail(embs)))

\* lines 102-107
MaxSim(emb, sel_embs) == IF sel_embs # <<>> THEN MaxOver(emb, sel_embs) ELSE 0

\* line 109 with the default 0.7 in place of the lambda_mmr argument
MmrScoreDefaultLambda(candidate, sel_embs, lam) ==
    7 * candidate["relevance_score"]
        - (10 - 7) * MaxSim(candidate["embedding"], sel_embs)

\* line 109 with the similarity added instead of subtracted
MmrScoreRewardsSimilarity(candidate, sel_embs, lam) ==
    lam * candidate["relevance_score"]
        + (10 - lam) * MaxSim(candidate["embedding"], sel_embs)

\* line 109 without the relevance term
MmrScoreSimilarityOnly(candidate, sel_embs, lam) ==
    0 - (10 - lam) * MaxSim(candidate["embedding"], sel_embs)

\* line 109, in 1e-5: lam is lambda_mmr in tenths
MmrScore(candidate, sel_embs, lam) ==
    lam * candidate["relevance_score"]
        - (10 - lam) * MaxSim(candidate["embedding"], sel_embs)

\* the for loop of lines 98-113 with >= for > at line 111: the last of the
\* best candidates wins
RECURSIVE ScanBestLastWins(_, _, _, _, _, _)
ScanBestLastWins(cands, sel_embs, lam, i, best_score, best_idx) ==
    IF i > Len(cands) THEN best_idx
    ELSE LET mmr_score == MmrScore(cands[i], sel_embs, lam)
         IN  IF mmr_score >= best_score
             THEN ScanBestLastWins(cands, sel_embs, lam, i + 1, mmr_score, i)
             ELSE ScanBestLastWins(cands, sel_embs, lam, i + 1, best_score, best_idx)

\* the for loop of lines 98-113 from element i on, returning best_idx
\* (1-based here, 0-based in the code)
RECURSIVE ScanBest(_, _, _, _, _, _)
ScanBest(cands, sel_embs, lam, i, best_score, best_idx) ==
    IF i > Len(cands) THEN best_idx
    ELSE LET mmr_score == MmrScore(cands[i], sel_embs, lam)
         IN  IF mmr_score > best_score
             THEN ScanBest(cands, sel_embs, lam, i + 1, mmr_score, i)
             ELSE ScanBest(cands, sel_embs, lam, i + 1, best_score, best_idx)

\* lines 95-113: the index popped at line 115
BestIdx(cands, sel_embs, lam) == ScanBest(cands, sel_embs, lam, 1, NEG_INF, 1)

\* lines 119-124 without the limit of remaining_slots
PaddedWithAll(sel, without, n) ==
    LET remaining_slots == n - Len(sel)
    IN  IF remaining_slots > 0 THEN sel \o without ELSE sel

\* lines 119-124 with the candidates without embedding put in front
PaddedInFront(sel, without, n) ==
    LET remaining_slots == n - Len(sel)
    IN  IF remaining_slots > 0 THEN Take(without, remaining_slots) \o sel ELSE sel

\* lines 119-124 with the candidates without embedding taken from the end
PaddedFromEnd(sel, without, n) ==
    LET remaining_slots == n - Len(sel)
    IN  IF remaining_slots > 0 THEN sel \o TakeFromEnd(without, remaining_slots) ELSE sel

\* lines 119-124: the selection padded with candidates without embedding
Padded(sel, without, n) ==
    LET remaining_slots == n - Len(sel)
    IN  IF remaining_slots > 0 THEN sel \o Take(without, remaining_slots) ELSE sel

----------------------------------------------------------------------------
(* context_assembly.py *)

\* estimate_tokens rounding the quotient up
estimate_tokens_ceil(text) == Max(1, (Len(text) + 3) \div 4)

\* estimate_tokens without the max(1, ...)
estimate_tokens_no_minimum(text) == Len(text) \div 4

estimate_tokens(text) == Max(1, Len(text) \div 4)

\* ', '.join(tags)
RECURSIVE JoinTags(_)
JoinTags(tags) ==
    IF tags = <<>> THEN ""
    ELSE IF Len(tags) = 1 THEN tags[1]
    ELSE tags[1] \o ", " \o JoinTags(Tail(tags))

\* lines 23 and 26 (and 47-48)
TagStr(result) ==
    LET tags == Get(result, "tags", <<>>)
    IN  IF tags # <<>> THEN " [" \o JoinTags(tags) \o "]" ELSE ""

\* lines 21-27: the block whose tokens are counted
Block(result) ==
    "[" \o Get(result, "content_type", "unknown") \o TagStr(result) \o "] "
        \o result["content"]

\* lines 46-49: the line put into the context
ContextLine(r) ==
    "- [" \o Get(r, "content_type", "unknown") \o TagStr(r) \o "] " \o r["content"]

\* "\n".join(lines)
RECURSIVE JoinLines(_)
JoinLines(lines) ==
    IF lines = <<>> THEN ""
    ELSE IF Len(lines) = 1 THEN lines[1]
    ELSE lines[1] \o "\n" \o JoinLines(Tail(lines))

\* line 30 testing the total before the block is added to it
ExceedsBudgetBeforeAdding(total, block_tokens, budget) == total > budget

\* line 30 with >= for >
ExceedsBudgetOrFills(total, block_tokens, budget) == total + block_tokens >= budget

\* line 30 never breaking on the first candidate
ExceedsBudgetAfterFirst(total, block_tokens, budget) == total > 0 /\ total + block_tokens > budget

\* line 30 with == for >
ExceedsBudgetEquals(total, block_tokens, budget) == total + block_tokens = budget

\* line 30: the break condition
ExceedsBudget(total, block_tokens, budget) == total + block_tokens > budget

\* lines 36-57: the value returned for the selection sel and its token total
Assembled(sel, total) ==
    IF sel = <<>>
    THEN [context |-> "", memory_count |-> 0, total_tokens_estimate |-> 0]
    ELSE [context |-> JoinLines([i \in 1..Len(sel) |-> ContextLine(sel[i])]),
          memory_count |-> Len(sel),
          total_tokens_estimate |-> total]

----------------------------------------------------------------------------
(* Inputs of rank_results *)

\* a key that may be missing from the dict
OptKey(key, values) == {key :> v : v \in values} \cup {EmptyDict}

\* 2.0 is outside the documented range of a cosine: it drives the sum over 1.0
CosValues == {-100, 100, 200}
ImpValues == {100}
AccessValues == {100}
\* 30 days before the epoch, and 5 days after it (clock skew)
CreatedValues == {Epoch - 30, Epoch + 5}

RawCandidates ==
    {c @@ m @@ a @@ ("created_at" :> t) :
        c \in OptKey("cosine_similarity", CosValues),
        m \in OptKey("importance", ImpValues),
        a \in OptKey("access_count", AccessValues),
        t \in CreatedValues}

\* the candidates longer lists are drawn from: importance given, access_count
\* missing, every cosine_similarity and created_at
ListPool ==
    {c \in RawCandidates : "importance" \in DOMAIN c /\ "access_count" \notin DOMAIN c}

\* the lists of at most n candidates of pool, the i-th carrying id i
ListsOf(pool, n) ==
    UNION {{[i \in 1..k |-> ("id" :> i) @@ f[i]] : f \in [1..k -> pool]} : k \in 0..n}

\* the lists handed to rank_results: every candidate alone, and the longer
\* lists over ListPool
RankInputs == ListsOf(RawCandidates, 1) \cup ListsOf(ListPool, MaxRankLen)

\* the clock readings of n successive datetime.now() calls
Readings(n) ==
    {f \in [1..n -> now..MaxNow] : \A i \in 1..(n - 1) : f[i] <= f[i + 1]}

\* the position of the candidate with this id in list s
PosIn(s, id) == CHOOSE i \in 1..Len(s) : s[i]["id"] = id

----------------------------------------------------------------------------
(* State machine of rank_results *)

MmrIdle ==
    /\ top_n = 0
    /\ lambda_mmr = 0
    /\ candidates = <<>>
    /\ no_embed = <<>>
    /\ selected = <<>>
    /\ selected_embeddings = <<>>

PackIdle ==
    /\ ranked_results = <<>>
    /\ max_tokens = 0
    /\ packed = <<>>
    /\ total_tokens = 0

InitRank ==
    /\ now = Epoch
    /\ pc = "start"
    /\ results \in RankInputs
    /\ given = <<>>
    /\ scored_at = EmptyDict
    /\ ret = <<>>
    /\ MmrIdle
    /\ PackIdle

\* time passes
Tick ==
    /\ now < MaxNow
    /\ now' = now + 1
    /\ UNCHANGED <<pc, rankVars, mmrVars, packVars, ret>>

\* one call rank_results(results); the list is scored and sorted in place
\* and returned.  The caller may call it again on the same list.
RankResults ==
    /\ pc \in {"start", "ranked"}
    /\ \E readings \in Readings(Len(results)) :
        /\ given' = results
        /\ results' = rank_results(results, readings)
        /\ scored_at' = [id \in {results[i]["id"] : i \in 1..Len(results)} |->
                            readings[PosIn(results, id)]]
        /\ now' = IF results = <<>> THEN now ELSE readings[Len(results)]
    /\ ret' = results'
    /\ pc' = "ranked"
    /\ UNCHANGED <<mmrVars, packVars>>

NextRank == Tick \/ RankResults

SpecRank == InitRank /\ [][NextRank]_vars

----------------------------------------------------------------------------
(* Inputs of mmr_rerank *)

\* relevance scores 0.7 and 0.9
ScoreValues == {7000, 9000}
\* two orthogonal directions, a zero vector, a vector of another dimension
EmbeddingValues == {<<1, 0>>, <<0, 1>>, <<0, 0>>, <<1>>}
\* lambda_mmr 0.0, 0.7 (the default) and 1.0
LambdaValues == {0, 7, 10}

ScoredCandidates ==
    {("relevance_score" :> sc) @@ e :
        sc \in ScoreValues, e \in OptKey("embedding", EmbeddingValues)}

----------------------------------------------------------------------------
(* State machine of mmr_rerank *)

RankIdle ==
    /\ now = Epoch
    /\ given = <<>>
    /\ scored_at = EmptyDict

InitMmr ==
    /\ pc = "start"
    /\ results \in ListsOf(ScoredCandidates, MaxMmrLen)
    /\ ret = <<>>
    /\ RankIdle
    /\ MmrIdle
    /\ PackIdle

\* lines 82-92: the call mmr_rerank(results, n, lam) up to the loop
MmrBegin ==
    /\ pc = "start"
    /\ \E n \in 1..MaxTopN, lam \in LambdaValues :
        /\ top_n' = n
        /\ lambda_mmr' = lam
        /\ IF results = <<>>
           THEN /\ ret' = <<>>
                /\ pc' = "done"
                /\ UNCHANGED <<candidates, no_embed>>
           ELSE /\ candidates' = WithEmbedding(results)
                /\ no_embed' = WithoutEmbedding(results)
                /\ IF candidates' = <<>>
                   THEN /\ ret' = Take(results, n)
                        /\ pc' = "done"
                   ELSE /\ ret' = ret
                        /\ pc' = "select"
    /\ selected' = <<>>
    /\ selected_embeddings' = <<>>
    /\ UNCHANGED <<now, rankVars, packVars>>

\* one iteration of the while loop (lines 94-117); when the loop condition
\* fails after it, lines 119-124 follow and the call returns
MmrSelect ==
    /\ pc = "select"
    /\ Len(selected) < top_n /\ candidates # <<>>
    /\ LET best_idx == BestIdx(candidates, selected_embeddings, lambda_mmr)
           chosen == candidates[best_idx]
       IN  /\ candidates' = RemoveAt(candidates, best_idx)
           /\ selected' = Append(selected, chosen)
           /\ selected_embeddings' = Append(selected_embeddings, chosen["embedding"])
    /\ IF Len(selected') < top_n /\ candidates' # <<>>
       THEN /\ pc' = "select"
            /\ ret' = ret
       ELSE /\ pc' = "done"
            /\ ret' = Padded(selected', no_embed, top_n)
    /\ UNCHANGED <<now, rankVars, top_n, lambda_mmr, no_embed, packVars>>

NextMmr == MmrBegin \/ MmrSelect

SpecMmr == InitMmr /\ [][NextMmr]_vars

----------------------------------------------------------------------------
(* Inputs of assemble_context *)

ContentValues == {"a", "likes coffee"}
ContentTypeValues == {"preference"}
TagsValues == {<<"food">>, <<"food", "drink">>}

PackCandidates ==
    {("content" :> c) @@ ty @@ tg :
        c \in ContentValues,
        ty \in OptKey("content_type", ContentTypeValues),
        tg \in OptKey("tags", TagsValues)}

----------------------------------------------------------------------------
(* State machine of assemble_context *)

InitAssemble ==
    /\ pc = "start"
    /\ ranked_results \in ListsOf(PackCandidates, MaxPackLen)
    /\ max_tokens = 0
    /\ packed = <<>>
    /\ total_tokens = 0
    /\ ret = <<>>
    /\ results = <<>>
    /\ RankIdle
    /\ MmrIdle

\* lines 17-18: the call assemble_context(ranked_results, budget) up to the
\* loop; for an empty list the loop body never runs and the call returns
AssembleBegin ==
    /\ pc = "start"
    /\ \E budget \in 1..MaxBudget : max_tokens' = budget
    /\ packed' = <<>>
    /\ total_tokens' = 0
    /\ IF ranked_results = <<>>
       THEN /\ pc' = "done"
            /\ ret' = Assembled(<<>>, 0)
       ELSE /\ pc' = "loop"
            /\ ret' = ret
    /\ UNCHANGED <<now, rankVars, mmrVars, ranked_results>>

\* one iteration of the for loop (lines 20-34) on the next element; when the
\* loop ends with it, by break or by exhaustion, lines 36-57 follow and the
\* call returns
AssembleStep ==
    /\ pc = "loop"
    /\ LET result == ranked_results[Len(packed) + 1]
           block_tokens == estimate_tokens(Block(result))
           stop == ExceedsBudget(total_tokens, block_tokens, max_tokens)
       IN  /\ packed' = IF stop THEN packed ELSE Append(packed, result)
           /\ total_tokens' = IF stop THEN total_tokens ELSE total_tokens + block_tokens
           /\ IF stop \/ Len(packed') = Len(ranked_results)
              THEN /\ pc' = "done"
                   /\ ret' = Assembled(packed', total_tokens')
              ELSE /\ pc' = "loop"
                   /\ ret' = ret
    /\ UNCHANGED <<now, rankVars, mmrVars, ranked_results, max_tokens>>

NextAssemble == AssembleBegin \/ AssembleStep

SpecAssemble == InitAssemble /\ [][NextAssemble]_vars

----------------------------------------------------------------------------
(* assemble_context on candidates whose content may span several lines *)

MaxFormatLen == 2

\* result["content"] (line 21) is any text: a one-line and a two-line one
MultiLineContentValues == {"a", "a\nb"}

FormatCandidates ==
    {("content" :> c) @@ ty @@ tg :
        c \in MultiLineContentValues,
        ty \in OptKey("content_type", ContentTypeValues),
        tg \in OptKey("tags", TagsValues)}

InitFormat ==
    /\ pc = "start"
    /\ ranked_results \in ListsOf(FormatCandidates, MaxFormatLen)
    /\ max_tokens = 0
    /\ packed = <<>>
    /\ total_tokens = 0
    /\ ret = <<>>
    /\ results = <<>>
    /\ RankIdle
    /\ MmrIdle

SpecFormat == InitFormat /\ [][NextAssemble]_vars

----------------------------------------------------------------------------
(* temporal_decay and access_bonus called on their own *)

MaxAge == 120
MaxAhead == 5
MaxAccess == 12

\* created_at values: up to MaxAge days before the epoch, up to MaxAhead
\* days after it, and two so old that the exponential underflows
DecayTimestamps ==
    ((Epoch - MaxAge)..(Epoch + MaxAhead))
        \cup {Epoch - EXP_UNDERFLOW_DAYS, Epoch - EXP_UNDERFLOW_DAYS - 365}

AccessCounts == (0..MaxAccess) \cup {100}

InitScore ==
    /\ pc = "start"
    /\ results = <<>>
    /\ ret = <<>>
    /\ RankIdle
    /\ MmrIdle
    /\ PackIdle

\* one call temporal_decay(created_at)
TemporalDecay ==
    /\ \E created_at \in DecayTimestamps :
        ret' = [fn |-> "temporal_decay", created_at |-> created_at, clock |-> now,
                value |-> temporal_decay(created_at, now)]
    /\ pc' = "scored"
    /\ UNCHANGED <<now, rankVars, mmrVars, packVars>>

\* one call access_bonus(access_count)
AccessBonus ==
    /\ \E access_count \in AccessCounts :
        ret' = [fn |-> "access_bonus", access_count |-> access_count,
                value |-> access_bonus(access_count)]
    /\ pc' = "scored"
    /\ UNCHANGED <<now, rankVars, mmrVars, packVars>>

NextScore == Tick \/ TemporalDecay \/ AccessBonus

SpecScore == InitScore /\ [][NextScore]_vars

----------------------------------------------------------------------------
(* routes/search.py: the /context pipeline, two requests served at once.
   Every variable holds one value per call: the call's own list and the
   locals of the functions it runs.  The clock is the one thing shared. *)

MaxPipeLen == 2

Calls == {1, 2}

_MMR_CANDIDATE_POOL == 20
\* 0.7, in tenths
_MMR_LAMBDA == 7

\* the rows vector_search returns: one without cosine_similarity and
\* embedding, one with both
PipeCandidates ==
    { [content |-> "a", created_at |-> Epoch - 30],
      [content |-> "likes coffee", created_at |-> Epoch - 30,
       cosine_similarity |-> 100, embedding |-> <<1, 0>>] }

\* req.max_tokens
PipeBudgets == {MaxBudget \div 3, MaxBudget}

\* a variable of another call's frame read in place of the call's own
LocalOfFirstCall(v, c) == v[1]

\* the value a local variable has in the frame of call c
Local(v, c) == v[c]

\* the loop of mmr_rerank (lines 94-117) run to its end
RECURSIVE MmrLoop(_, _, _, _, _)
MmrLoop(cands, sel, sel_embs, n, lam) ==
    IF Len(sel) < n /\ cands # <<>>
    THEN LET best_idx == BestIdx(cands, sel_embs, lam)
         IN  MmrLoop(RemoveAt(cands, best_idx), Append(sel, cands[best_idx]),
                     Append(sel_embs, cands[best_idx]["embedding"]), n, lam)
    ELSE sel

\* mmr_rerank(rs, n, lam) as one call
mmr_rerank(rs, n, lam) ==
    IF rs = <<>> THEN <<>>
    ELSE IF WithEmbedding(rs) = <<>> THEN Take(rs, n)
    ELSE Padded(MmrLoop(WithEmbedding(rs), <<>>, <<>>, n, lam), WithoutEmbedding(rs), n)

\* the loop of assemble_context (lines 20-34) run to its end: the selection
\* and its token total
RECURSIVE PackLoop(_, _, _, _)
PackLoop(rr, sel, total, budget) ==
    IF Len(sel) = Len(rr) THEN <<sel, total>>
    ELSE LET result == rr[Len(sel) + 1]
             block_tokens == estimate_tokens(Block(result))
         IN  IF ExceedsBudget(total, block_tokens, budget) THEN <<sel, total>>
             ELSE PackLoop(rr, Append(sel, result), total + block_tokens, budget)

\* assemble_context(rr, budget) as one call
assemble_context(rr, budget) ==
    LET p == PackLoop(rr, <<>>, 0, budget) IN Assembled(p[1], p[2])

InitPipeline ==
    /\ now = MaxNow
    /\ pc = [c \in Calls |-> "start"]
    /\ results \in [Calls -> ListsOf(PipeCandidates, MaxPipeLen)]
    /\ given = [c \in Calls |-> <<>>]
    /\ scored_at = [c \in Calls |-> EmptyDict]
    /\ top_n = [c \in Calls |-> 0]
    /\ lambda_mmr = [c \in Calls |-> 0]
    /\ candidates = [c \in Calls |-> <<>>]
    /\ no_embed = [c \in Calls |-> <<>>]
    /\ selected = [c \in Calls |-> <<>>]
    /\ selected_embeddings = [c \in Calls |-> <<>>]
    /\ ranked_results = [c \in Calls |-> <<>>]
    /\ max_tokens = [c \in Calls |-> 0]
    /\ packed = [c \in Calls |-> <<>>]
    /\ total_tokens = [c \in Calls |-> 0]
    /\ ret = [c \in Calls |-> <<>>]

\* line 74: ranked = rank_results(raw_results), the call's list scored and
\* sorted in place
PipeRank(c) ==
    /\ Local(pc, c) = "start"
    /\ LET raw_results == Local(results, c)
       IN  \E readings \in Readings(Len(raw_results)) :
            /\ given' = [given EXCEPT ![c] = raw_results]
            /\ results' = [results EXCEPT ![c] = rank_results(raw_results, readings)]
            /\ scored_at' = [scored_at EXCEPT ![c] =
                                [id \in {raw_results[i]["id"] : i \in 1..Len(raw_results)} |->
                                    readings[PosIn(raw_results, id)]]]
            /\ now' = IF raw_results = <<>> THEN now ELSE readings[Len(raw_results)]
    /\ pc' = [pc EXCEPT ![c] = "ranked"]
    /\ UNCHANGED <<mmrVars, packVars, ret>>

\* line 78: diverse = mmr_rerank(ranked, top_n=_MMR_CANDIDATE_POOL,
\* lambda_mmr=_MMR_LAMBDA), up to the loop (ranking.py lines 82-92)
PipeMmrBegin(c) ==
    /\ Local(pc, c) = "ranked"
    /\ top_n' = [top_n EXCEPT ![c] = _MMR_CANDIDATE_POOL]
    /\ lambda_mmr' = [lambda_mmr EXCEPT ![c] = _MMR_LAMBDA]
    /\ selected' = [selected EXCEPT ![c] = <<>>]
    /\ selected_embeddings' = [selected_embeddings EXCEPT ![c] = <<>>]
    /\ LET ranked == Local(results, c)
       IN  IF ranked = <<>>
           THEN /\ ranked_results' = [ranked_results EXCEPT ![c] = <<>>]
                /\ pc' = [pc EXCEPT ![c] = "reranked"]
                /\ UNCHANGED <<candidates, no_embed>>
           ELSE /\ candidates' = [candidates EXCEPT ![c] = WithEmbedding(ranked)]
                /\ no_embed' = [no_embed EXCEPT ![c] = WithoutEmbedding(ranked)]
                /\ IF WithEmbedding(ranked) = <<>>
                   THEN /\ ranked_results' = [ranked_results EXCEPT ![c] =
                                                 Take(ranked, _MMR_CANDIDATE_POOL)]
                        /\ pc' = [pc EXCEPT ![c] = "reranked"]
                   ELSE /\ ranked_results' = ranked_results
                        /\ pc' = [pc EXCEPT ![c] = "select"]
    /\ UNCHANGED <<now, rankVars, max_tokens, packed, total_tokens, ret>>

\* one iteration of the loop of mmr_rerank (ranking.py lines 94-117); after
\* the last one lines 119-124 follow and diverse is bound
PipeMmrSelect(c) ==
    /\ Local(pc, c) = "select"
    /\ LET cands == Local(candidates, c)
           best_idx == BestIdx(cands, Local(selected_embeddings, c), Local(lambda_mmr, c))
           chosen == cands[best_idx]
           sel == Append(Local(selected, c), chosen)
       IN  /\ candidates' = [candidates EXCEPT ![c] = RemoveAt(cands, best_idx)]
           /\ selected' = [selected EXCEPT ![c] = sel]
           /\ selected_embeddings' = [selected_embeddings EXCEPT ![c] =
                  Append(Local(selected_embeddings, c), chosen["embedding"])]
           /\ IF Len(sel) < Local(top_n, c) /\ RemoveAt(cands, best_idx) # <<>>
              THEN /\ pc' = [pc EXCEPT ![c] = "select"]
                   /\ ranked_results' = ranked_results
              ELSE /\ pc' = [pc EXCEPT ![c] = "reranked"]
                   /\ ranked_results' = [ranked_results EXCEPT ![c] =
                          Padded(sel, Local(no_embed, c), Local(top_n, c))]
    /\ UNCHANGED <<now, rankVars, top_n, lambda_mmr, no_embed, max_tokens, packed,
                   total_tokens, ret>>

\* line 81: assembled = assemble_context(diverse, max_tokens=req.max_tokens),
\* up to the loop (context_assembly.py lines 17-18)
PipeAssembleBegin(c) ==
    /\ Local(pc, c) = "reranked"
    /\ \E budget \in PipeBudgets : max_tokens' = [max_tokens EXCEPT ![c] = budget]
    /\ packed' = [packed EXCEPT ![c] = <<>>]
    /\ total_tokens' = [total_tokens EXCEPT ![c] = 0]
    /\ IF Local(ranked_results, c) = <<>>
       THEN /\ pc' = [pc EXCEPT ![c] = "done"]
            /\ ret' = [ret EXCEPT ![c] = Assembled(<<>>, 0)]
       ELSE /\ pc' = [pc EXCEPT ![c] = "loop"]
            /\ ret' = ret
    /\ UNCHANGED <<now, rankVars, mmrVars, ranked_results>>

\* one iteration of the loop of assemble_context (context_assembly.py lines
\* 20-34); when the loop ends with it the call returns (lines 36-57)
PipeAssembleStep(c) ==
    /\ Local(pc, c) = "loop"
    /\ LET diverse == Local(ranked_results, c)
           result == diverse[Len(Local(packed, c)) + 1]
           block_tokens == estimate_tokens(Block(result))
           stop == ExceedsBudget(Local(total_tokens, c), block_tokens, Local(max_tokens, c))
           sel == IF stop THEN Local(packed, c) ELSE Append(Local(packed, c), result)
           total == IF stop THEN Local(total_tokens, c)
                    ELSE Local(total_tokens, c) + block_tokens
       IN  /\ packed' = [packed EXCEPT ![c] = sel]
           /\ total_tokens' = [total_tokens EXCEPT ![c] = total]
           /\ IF stop \/ Len(sel) = Len(diverse)
              THEN /\ pc' = [pc EXCEPT ![c] = "done"]
                   /\ ret' = [ret EXCEPT ![c] = Assembled(sel, total)]
              ELSE /\ pc' = [pc EXCEPT ![c] = "loop"]
                   /\ ret' = ret
    /\ UNCHANGED <<now, rankVars, mmrVars, ranked_results, max_tokens>>

NextPipeline ==
    \E c \in Calls :
        \/ PipeRank(c)
        \/ PipeMmrBegin(c)
        \/ PipeMmrSelect(c)
        \/ PipeAssembleBegin(c)
        \/ PipeAssembleStep(c)

SpecPipeline == InitPipeline /\ [][NextPipeline]_vars

----------------------------------------------------------------------------
(* estimate_tokens called on its own *)

MaxTextLen == 8

\* the strings of exactly n characters over a two-letter alphabet
RECURSIVE TextsOfLen(_)
TextsOfLen(n) ==
    IF n = 0 THEN {""}
    ELSE {t \o ch : t \in TextsOfLen(n - 1), ch \in {"a", "b"}}

\* every such string of at most MaxTextLen characters, the empty one included
Texts == UNION {TextsOfLen(n) : n \in 0..MaxTextLen}

InitTokens ==
    /\ pc = "start"
    /\ results = <<>>
    /\ ret = <<>>
    /\ RankIdle
    /\ MmrIdle
    /\ PackIdle

\* one call estimate_tokens(text)
EstimateTokens ==
    /\ \E text \in Texts :
        ret' = [fn |-> "estimate_tokens", text |-> text, value |-> estimate_tokens(text)]
    /\ pc' = "estimated"
    /\ UNCHANGED <<now, rankVars, mmrVars, packVars>>

NextTokens == EstimateTokens

SpecTokens == InitTokens /\ [][NextTokens]_vars

----------------------------------------------------------------------------
(* Claims about the relevance scorer, checked under SpecRank *)

HasScore(r) == "relevance_score" \in DOMAIN r

\* a dict without its relevance_score key
Unscored(r) == [k \in DOMAIN r \ {"relevance_score"} |-> r[k]]

\* C7: every relevance_score written by rank_results, that is every value
\* combined_relevance returns, lies in [0.0, 1.0] (0..10000 in 1e-4).
C7_ScoreInUnitInterval ==
    \A i \in 1..Len(results) :
        HasScore(results[i]) =>
            /\ results[i]["relevance_score"] >= 0
            /\ results[i]["relevance_score"] <= 10000

\* C7 witness: one list holds a scored candidate whose sum is negative
\* (cosine -1.0) and one whose sum exceeds 1.0 (cosine 2.0, importance 1.0,
\* age 0).
C7_Witness ==
    /\ pc = "ranked"
    /\ \E i, j \in 1..Len(results) :
        /\ Get(results[i], "cosine_similarity", 0) = -100
        /\ results[i]["relevance_score"] = 0
        /\ Get(results[j], "cosine_similarity", 0) = 200
        /\ Get(results[j], "importance", 50) = 100
        /\ results[j]["created_at"] >= now
        /\ results[j]["relevance_score"] = 10000

\* C8: rank_results returns a permutation of the list it was given, every
\* element carrying a relevance_score, the scores non-increasing.
C8_RankedPermutationSorted ==
    pc = "ranked" =>
        /\ Len(ret) = Len(given)
        /\ \A k \in 1..Len(given) :
            /\ Cardinality({i \in 1..Len(ret) : ret[i]["id"] = given[k]["id"]}) = 1
            /\ Unscored(ret[PosIn(ret, given[k]["id"])]) = Unscored(given[k])
        /\ \A i \in 1..Len(ret) : HasScore(ret[i])
        /\ \A i \in 1..Len(ret) : \A j \in (i + 1)..Len(ret) :
            ret[i]["relevance_score"] >= ret[j]["relevance_score"]

\* C8 witness: a list of three given in ascending score order comes back
\* reversed.
C8_Witness ==
    /\ pc = "ranked"
    /\ Len(ret) = 3
    /\ PosIn(given, ret[1]["id"]) = 3
    /\ PosIn(given, ret[3]["id"]) = 1
    /\ ret[1]["relevance_score"] > ret[2]["relevance_score"]
    /\ ret[2]["relevance_score"] > ret[3]["relevance_score"]

\* C9: two candidates with equal relevance_score are returned in the
\* relative order they had in the list given to the call.
C9_StableSort ==
    pc = "ranked" =>
        \A i \in 1..Len(ret) : \A j \in (i + 1)..Len(ret) :
            ret[i]["relevance_score"] = ret[j]["relevance_score"] =>
                PosIn(given, ret[i]["id"]) < PosIn(given, ret[j]["id"])

\* C9 witness: the sort moved the last candidate to the front, past two
\* candidates that tie although their inputs differ.
C9_Witness ==
    /\ pc = "ranked"
    /\ Len(ret) = 3
    /\ PosIn(given, ret[1]["id"]) = 3
    /\ ret[1]["relevance_score"] > ret[2]["relevance_score"]
    /\ ret[2]["relevance_score"] = ret[3]["relevance_score"]
    /\ ret[2]["created_at"] # ret[3]["created_at"]

\* the four inputs of a candidate's score, scored with clock reading `clock`
Rescore(r, clock) ==
    combined_relevance(Get(r, "cosine_similarity", 0), Get(r, "importance", 50),
                       r["created_at"], Get(r, "access_count", 0), clock)

\* the weighted sum of lines 39-44 before any clamp or rounding, in 1e-8,
\* for a candidate scored with clock reading `clock`
WeightedSum(r, clock) ==
    W_SIMILARITY * Get(r, "cosine_similarity", 0) * 10000
    + W_IMPORTANCE * Get(r, "importance", 50) * 10000
    + W_DECAY * temporal_decay(r["created_at"], clock)
    + W_ACCESS * access_bonus(Get(r, "access_count", 0)) * 10000

\* C11: a relevance_score is the weighted sum clamped to [0.0, 1.0] and
\* rounded to 4 decimals, clamp and rounding applied once to the sum: a sum
\* that is negative gives exactly 0.0, a sum above 1.0 gives exactly 1.0, and
\* any other sum gives the multiple of 0.0001 nearest to it.
C11_ClampThenRoundOnce ==
    \A i \in 1..Len(results) :
        HasScore(results[i]) =>
            LET sum == WeightedSum(results[i], scored_at[results[i]["id"]])
                score == results[i]["relevance_score"]
            IN  /\ sum <= 0 => score = 0
                /\ sum >= ONE8 => score = 10000
                /\ (sum > 0 /\ sum < ONE8) =>
                    /\ score * 10000 - sum <= 5000
                    /\ sum - score * 10000 <= 5000

\* C11 witness: a scored list holds a candidate whose sum is negative
\* although its importance term is positive, scored exactly 0.0, and a
\* candidate whose sum inside (0, 1) is not a multiple of 0.0001.
C11_Witness ==
    /\ pc = "ranked"
    /\ \E i, j \in 1..Len(results) :
        /\ WeightedSum(results[i], scored_at[results[i]["id"]]) < 0
        /\ Get(results[i], "importance", 50) > 0
        /\ results[i]["relevance_score"] = 0
        /\ WeightedSum(results[j], scored_at[results[j]["id"]]) > 0
        /\ WeightedSum(results[j], scored_at[results[j]["id"]]) < ONE8
        /\ WeightedSum(results[j], scored_at[results[j]["id"]]) % 10000 # 0

\* C17: rank_results returns a list as long as the one it was given, the
\* empty list included (returned empty); a candidate without
\* cosine_similarity is scored as one with cosine_similarity 0.0, a
\* candidate without importance as one with importance 0.5.
C17_MissingKeysDefaulted ==
    /\ pc = "ranked" => Len(ret) = Len(given)
    /\ (pc = "ranked" /\ given = <<>>) => ret = <<>>
    /\ \A i \in 1..Len(results) :
        HasScore(results[i]) =>
            LET r == results[i]
                cos == IF "cosine_similarity" \in DOMAIN r THEN r["cosine_similarity"] ELSE 0
                imp == IF "importance" \in DOMAIN r THEN r["importance"] ELSE 50
            IN  r["relevance_score"]
                    = combined_relevance(cos, imp, r["created_at"],
                                         Get(r, "access_count", 0),
                                         scored_at[r["id"]])

\* C17 witness: a candidate carrying neither cosine_similarity nor
\* importance has been scored, its score being that of importance 0.5.
C17_Witness ==
    /\ pc = "ranked"
    /\ \E i \in 1..Len(ret) :
        /\ "cosine_similarity" \notin DOMAIN ret[i]
        /\ "importance" \notin DOMAIN ret[i]
        /\ "access_count" \notin DOMAIN ret[i]
        /\ ret[i]["relevance_score"]
            = Round4(W_IMPORTANCE * 50 * 10000
                     + W_DECAY * temporal_decay(ret[i]["created_at"], scored_at[ret[i]["id"]]))

\* C10 as claimed: whenever the score of a scored candidate is recomputed
\* from its four inputs, the value is the one it carries.
C10_RecomputeSameWhenever ==
    \A i \in 1..Len(results) :
        HasScore(results[i]) => Rescore(results[i], now) = results[i]["relevance_score"]

\* C10 amended: the score a candidate carries is the value computed from its
\* four inputs and the clock reading of the call that scored it, whatever
\* calls came before: the clock is the only state the score depends on.
C10_RecomputeSameAtSameClock ==
    \A i \in 1..Len(results) :
        HasScore(results[i]) =>
            Rescore(results[i], scored_at[results[i]["id"]])
                = results[i]["relevance_score"]

\* C10 witness: a list scored twice, the second time at a later clock
\* reading, a candidate's score having changed with the clock.
C10_Witness ==
    /\ pc = "ranked"
    /\ \E i \in 1..Len(results) :
        /\ HasScore(given[PosIn(given, results[i]["id"])])
        /\ given[PosIn(given, results[i]["id"])]["relevance_score"]
               # results[i]["relevance_score"]

\* the inputs of a candidate's score are within their documented ranges
InDocumentedRanges(r) ==
    /\ Get(r, "cosine_similarity", 0) >= -100
    /\ Get(r, "cosine_similarity", 0) <= 100
    /\ Get(r, "importance", 50) >= 0
    /\ Get(r, "importance", 50) <= 100
    /\ Get(r, "access_count", 0) >= 0

\* C30: for inputs within their documented ranges the weighted sum is at
\* most 0.955, so the upper clamp leaves it as it is and the relevance_score
\* is at most 0.955, never 1.0; a sum that is not negative is only rounded.
C30_SumAtMost0955 ==
    \A i \in 1..Len(results) :
        (HasScore(results[i]) /\ InDocumentedRanges(results[i])) =>
            LET sum == WeightedSum(results[i], scored_at[results[i]["id"]])
                score == results[i]["relevance_score"]
            IN  /\ sum <= 95500000
                /\ score <= 9550
                /\ score # 10000
                /\ sum >= 0 => score = Round4(sum)

\* C30 witness: cosine_similarity 1.0, importance 1.0, a created_at not in
\* the past and access_count 100: the sum is 0.955 and so is the score.
C30_Witness ==
    /\ pc = "ranked"
    /\ \E i \in 1..Len(results) :
        /\ Get(results[i], "cosine_similarity", 0) = 100
        /\ Get(results[i], "importance", 50) = 100
        /\ Get(results[i], "access_count", 0) = 100
        /\ results[i]["created_at"] >= scored_at[results[i]["id"]]
        /\ WeightedSum(results[i], scored_at[results[i]["id"]]) = 95500000
        /\ results[i]["relevance_score"] = 9550

----------------------------------------------------------------------------
(* Claims about mmr_rerank, checked under SpecMmr *)

AllEmbedded(s) == \A i \in 1..Len(s) : HasEmbedding(s[i])
NoneEmbedded(s) == \A i \in 1..Len(s) : ~HasEmbedding(s[i])

\* C3: mmr_rerank returns min(top_n, len(results)) candidates, so never more
\* than top_n, and the empty list for an empty input.
C3_LengthIsMinTopNLen ==
    pc = "done" =>
        /\ Len(ret) = Min(top_n, Len(results))
        /\ Len(ret) <= top_n
        /\ (results = <<>> => ret = <<>>)

\* C3 witness: three candidates, one of them with an embedding, top_n = 2:
\* one selected and one padded.
C3_Witness ==
    /\ pc = "done"
    /\ Len(results) = 3
    /\ top_n = 2
    /\ Len(selected) = 1
    /\ Len(no_embed) = 2
    /\ Len(ret) = 2

\* the top n candidates of s by relevance_score, ties in input order
TopByRelevance(s, n) == Take(SortDesc(s), n)

\* C4 as claimed: with lambda = 1 mmr_rerank returns the top_n candidates of
\* the input by relevance_score, whether or not they carry an embedding.
C4_Lambda1PureRelevanceAnyInput ==
    (pc = "done" /\ lambda_mmr = 10) => ret = TopByRelevance(results, top_n)

\* C4 amended: with lambda = 1 and every candidate carrying an embedding,
\* mmr_rerank returns the top_n candidates by relevance_score, non-increasing,
\* ties in input order.
C4_Lambda1PureRelevanceAllEmbedded ==
    (pc = "done" /\ lambda_mmr = 10 /\ AllEmbedded(results)) =>
        ret = TopByRelevance(results, top_n)

\* C4 witness: lambda = 1, three embedded candidates given in ascending
\* score order, the two best being duplicates of each other, top_n = 2.
C4_Witness ==
    /\ pc = "done"
    /\ lambda_mmr = 10
    /\ top_n = 2
    /\ Len(results) = 3
    /\ AllEmbedded(results)
    /\ results[1]["relevance_score"] < results[2]["relevance_score"]
    /\ results[2]["embedding"] = results[3]["embedding"]
    /\ results[2]["embedding"] = <<1, 0>>
    /\ ret = <<results[2], results[3]>>

\* the step of MmrSelect that follows the first selection, at lambda = 0
DiversityStep ==
    /\ pc = "select"
    /\ lambda_mmr = 0
    /\ selected # <<>>
    /\ selected' # selected

Chosen == selected'[Len(selected')]

\* a and b have a zero dot product
Orthogonal(a, b) == Len(a) = Len(b) /\ Dot(a, b) = 0

\* a remaining candidate, of another embedding than the chosen one, is
\* orthogonal to every selected embedding
OrthogonalRemains ==
    \E i \in 1..Len(candidates) :
        /\ candidates[i]["embedding"] # Chosen["embedding"]
        /\ \A k \in 1..Len(selected_embeddings) :
            Orthogonal(candidates[i]["embedding"], selected_embeddings[k])

ChosenDuplicatesSelected ==
    \E k \in 1..Len(selected_embeddings) : Chosen["embedding"] = selected_embeddings[k]

ChosenHasLeastMaxSim ==
    \A i \in 1..Len(candidates) :
        MaxSim(Chosen["embedding"], selected_embeddings)
            <= MaxSim(candidates[i]["embedding"], selected_embeddings)

\* C5 as claimed: at lambda = 0 every selection after the first takes a
\* candidate of least max-similarity to the selection, and never a candidate
\* whose embedding equals a selected one while an orthogonal one remains.
C5_Lambda0NeverDuplicate ==
    [][DiversityStep =>
        /\ ChosenHasLeastMaxSim
        /\ ~(ChosenDuplicatesSelected /\ OrthogonalRemains)]_vars

\* C5 amended: the same, the duplicate being of non-zero magnitude (a
\* zero-magnitude embedding has similarity 0.0 to everything, itself included).
C5_Lambda0NeverNonZeroDuplicate ==
    [][DiversityStep =>
        /\ ChosenHasLeastMaxSim
        /\ ~(/\ ChosenDuplicatesSelected
             /\ Dot(Chosen["embedding"], Chosen["embedding"]) # 0
             /\ OrthogonalRemains)]_vars

\* C5 witness: lambda = 0, the two duplicates of relevance 0.9 come first,
\* the orthogonal candidate of relevance 0.7 last; the second selection is
\* the orthogonal one, the duplicate is left over.
C5_Witness ==
    /\ lambda_mmr = 0
    /\ Len(results) = 3
    /\ results[1]["relevance_score"] = 9000
    /\ results[2]["relevance_score"] = 9000
    /\ results[3]["relevance_score"] = 7000
    /\ Len(selected) = 2
    /\ selected[1] = results[1]
    /\ selected[2] = results[3]
    /\ candidates = <<results[2]>>
    /\ results[1]["embedding"] = <<1, 0>>
    /\ results[2]["embedding"] = <<1, 0>>
    /\ results[3]["embedding"] = <<0, 1>>

\* C6: when no candidate carries an embedding, mmr_rerank returns the first
\* min(top_n, len(results)) candidates in input order and selects nothing.
C6_NoEmbeddingsFirstTopN ==
    NoneEmbedded(results) =>
        /\ pc # "select"
        /\ selected = <<>>
        /\ pc = "done" =>
            /\ Len(ret) = Min(top_n, Len(results))
            /\ \A i \in 1..Len(ret) : ret[i] = results[i]

\* C6 witness: three candidates without embedding, the first of lower
\* relevance than the second, top_n = 2, lambda = 0.7.
C6_Witness ==
    /\ pc = "done"
    /\ lambda_mmr = 7
    /\ top_n = 2
    /\ Len(results) = 3
    /\ NoneEmbedded(results)
    /\ results[1]["relevance_score"] < results[2]["relevance_score"]
    /\ ret = <<results[1], results[2]>>

----------------------------------------------------------------------------
\* a step of MmrSelect: one iteration of the selection loop
SelectionStep == pc = "select" /\ selected' # selected

\* the greatest element of a non-empty set of integers
GreatestOf(S) == CHOOSE m \in S : \A x \in S : x <= m

\* lambda * relevance_score - (1 - lambda) * max_sim of a remaining
\* candidate, before the iteration's selection, in 1e-5
ClaimedMmrScore(r) ==
    LET max_sim ==
            IF selected_embeddings = <<>> THEN 0
            ELSE GreatestOf({_cosine_similarity(r["embedding"], selected_embeddings[k]) :
                                k \in 1..Len(selected_embeddings)})
    IN  lambda_mmr * r["relevance_score"] - (10 - lambda_mmr) * max_sim

\* C22: at every iteration of the selection loop the candidate chosen is a
\* remaining candidate whose mmr_score is at least that of every remaining
\* candidate and strictly greater than that of every remaining candidate
\* before it in the list: exact ties go to the earliest.
C22_ChosenIsFirstArgmax ==
    [][SelectionStep =>
        \E idx \in 1..Len(candidates) :
            /\ candidates[idx] = Chosen
            /\ candidates' = RemoveAt(candidates, idx)
            /\ \A j \in 1..Len(candidates) :
                /\ ClaimedMmrScore(candidates[j]) <= ClaimedMmrScore(Chosen)
                /\ j < idx => ClaimedMmrScore(candidates[j]) < ClaimedMmrScore(Chosen)]_vars

\* C22 witness: at lambda = 0.7 the second selection was made among two
\* remaining candidates of equal mmr_score and took the earlier one, after
\* a first selection that took the last of three.
C22_Witness ==
    /\ lambda_mmr = 7
    /\ Len(results) = 3
    /\ AllEmbedded(results)
    /\ Len(selected) = 2
    /\ selected[1] = results[3]
    /\ selected[2] = results[1]
    /\ lambda_mmr * results[1]["relevance_score"]
           - 3 * _cosine_similarity(results[1]["embedding"], results[3]["embedding"])
       = lambda_mmr * results[2]["relevance_score"]
           - 3 * _cosine_similarity(results[2]["embedding"], results[3]["embedding"])

\* the relevance_score of r is maximal among the embedded candidates of s
MaximalAmongEmbedded(r, s) ==
    \A i \in 1..Len(s) :
        HasEmbedding(s[i]) => s[i]["relevance_score"] <= r["relevance_score"]

\* C23 as claimed: when a candidate of the input carries an embedding, for
\* every lambda the first element of the result is an embedded candidate of
\* maximal relevance_score among the embedded ones.
C23_FirstIsMostRelevantAnyLambda ==
    (pc = "done" /\ ~NoneEmbedded(results)) =>
        /\ HasEmbedding(ret[1])
        /\ MaximalAmongEmbedded(ret[1], results)

\* C23 amended: the first element of the result is an embedded candidate;
\* for lambda > 0 its relevance_score is maximal among the embedded ones,
\* for lambda = 0 it is the first embedded candidate of the input whatever
\* its relevance_score.
C23_FirstIsMostRelevantPositiveLambda ==
    (pc = "done" /\ ~NoneEmbedded(results)) =>
        /\ HasEmbedding(ret[1])
        /\ lambda_mmr > 0 => MaximalAmongEmbedded(ret[1], results)
        /\ lambda_mmr = 0 => ret[1] = WithEmbedding(results)[1]

\* C23 witness: lambda = 0.7, a candidate without embedding of relevance
\* 0.9 first, then an embedded one of 0.7, then an embedded one of 0.9,
\* which is the first element of the result.
C23_Witness ==
    /\ pc = "done"
    /\ lambda_mmr = 7
    /\ Len(results) = 3
    /\ ~HasEmbedding(results[1])
    /\ results[1]["relevance_score"] = 9000
    /\ HasEmbedding(results[2])
    /\ results[2]["relevance_score"] = 7000
    /\ HasEmbedding(results[3])
    /\ results[3]["relevance_score"] = 9000
    /\ ret[1] = results[3]

\* the candidates of s that carry an embedding / that carry none, in the
\* order of s
EmbeddedOf(s) == SelectSeq(s, LAMBDA r : "embedding" \in DOMAIN r)
UnembeddedOf(s) == SelectSeq(s, LAMBDA r : "embedding" \notin DOMAIN r)

\* C24: with k embedded candidates, 1 <= k < top_n, and m without
\* embedding, the result is the k embedded candidates in selection order
\* followed by the first min(top_n - k, m) candidates without embedding in
\* their input order; a candidate without embedding is never among those
\* the loop scans or selects.
C24_EmbeddedThenPadding ==
    /\ \A i \in 1..Len(candidates) : "embedding" \in DOMAIN candidates[i]
    /\ \A i \in 1..Len(selected) : "embedding" \in DOMAIN selected[i]
    /\ LET k == Len(EmbeddedOf(results))
           m == Len(UnembeddedOf(results))
           pad == IF top_n - k <= m THEN top_n - k ELSE m
       IN  (pc = "done" /\ k >= 1 /\ k < top_n) =>
               /\ Len(selected) = k
               /\ {selected[i] : i \in 1..k} = {EmbeddedOf(results)[i] : i \in 1..k}
               /\ ret = selected \o SubSeq(UnembeddedOf(results), 1, pad)

\* C24 witness: the one embedded candidate is the middle one of three,
\* top_n = 2: the result is that candidate followed by the first of the two
\* without embedding, the last candidate being left out.
C24_Witness ==
    /\ pc = "done"
    /\ top_n = 2
    /\ Len(results) = 3
    /\ ~HasEmbedding(results[1])
    /\ HasEmbedding(results[2])
    /\ ~HasEmbedding(results[3])
    /\ ret = <<results[2], results[1]>>

\* every component of the vector is zero
ZeroVector(a) == \A i \in 1..Len(a) : a[i] = 0

\* a pair of embeddings without a cosine: unequal lengths or a zero vector
Degenerate(a, b) == Len(a) # Len(b) \/ ZeroVector(a) \/ ZeroVector(b)

\* C25: for every remaining candidate and every selected embedding that
\* differ in length or of which one has zero magnitude _cosine_similarity
\* is 0.0, so that a candidate forming only such pairs has max_sim 0.0; and
\* the call still returns min(top_n, len(results)) candidates.
C25_DegeneratePairsScoreZero ==
    /\ \A i \in 1..Len(candidates) :
        LET emb == candidates[i]["embedding"]
        IN  /\ \A k \in 1..Len(selected_embeddings) :
                Degenerate(emb, selected_embeddings[k]) =>
                    _cosine_similarity(emb, selected_embeddings[k]) = 0
            /\ (\A k \in 1..Len(selected_embeddings) :
                    Degenerate(emb, selected_embeddings[k])) =>
                   MaxSim(emb, selected_embeddings) = 0
    /\ \A i, k \in 1..Len(selected_embeddings) :
        Degenerate(selected_embeddings[i], selected_embeddings[k]) =>
            _cosine_similarity(selected_embeddings[i], selected_embeddings[k]) = 0
    /\ pc = "done" =>
        Len(ret) = (IF top_n <= Len(results) THEN top_n ELSE Len(results))

\* C25 witness: embeddings of one component, of two components and of zero
\* magnitude were all three selected, top_n = 3.
C25_Witness ==
    /\ pc = "done"
    /\ top_n = 3
    /\ Len(ret) = 3
    /\ Len(selected_embeddings) = 3
    /\ \E i, j, k \in 1..3 :
        /\ selected_embeddings[i] = <<1>>
        /\ selected_embeddings[j] = <<1, 0>>
        /\ selected_embeddings[k] = <<0, 0>>

IsPrefix(s, t) == Len(s) <= Len(t) /\ s = SubSeq(t, 1, Len(s))

\* C27: the result of mmr_rerank for top_n = k is a prefix of its result on
\* the same input and lambda for top_n = k + 1 (and so for every greater
\* top_n).
C27_PrefixConsistentInTopN ==
    pc = "done" =>
        \A more \in (top_n + 1)..(MaxTopN + 1) :
            IsPrefix(ret, mmr_rerank(results, more, lambda_mmr))

\* C27 witness: top_n = 2 on three candidates returned two of them in
\* another order than the input's, the result for top_n = 3 being longer.
C27_Witness ==
    /\ pc = "done"
    /\ top_n = 2
    /\ Len(results) = 3
    /\ Len(selected) = 2
    /\ ret # SubSeq(results, 1, 2)
    /\ Len(mmr_rerank(results, 3, lambda_mmr)) = 3
    /\ ret = SubSeq(mmr_rerank(results, 3, lambda_mmr), 1, 2)

----------------------------------------------------------------------------
(* Claims about assemble_context, checked under SpecAssemble *)

\* the token cost of one candidate
Cost(result) == estimate_tokens(Block(result))

\* the cumulative cost of the first k candidates of s
RECURSIVE PrefixCost(_, _)
PrefixCost(s, k) == IF k = 0 THEN 0 ELSE PrefixCost(s, k - 1) + Cost(s[k])

\* C1: the running total never exceeds max_tokens, after any iteration of
\* the packing loop, nor does the total_tokens_estimate returned.
C1_TotalWithinBudget ==
    /\ pc \in {"loop", "done"} => total_tokens <= max_tokens
    /\ pc = "done" => ret["total_tokens_estimate"] <= max_tokens

\* C1 witness: two of three candidates packed, the budget filled to the last
\* token, the third not fitting.
C1_Witness ==
    /\ pc = "done"
    /\ Len(ranked_results) = 3
    /\ ret["memory_count"] = 2
    /\ ret["total_tokens_estimate"] = max_tokens
    /\ total_tokens = Cost(ranked_results[1]) + Cost(ranked_results[2])

\* C2: the candidates included are the longest prefix of the input whose
\* cumulative cost is within max_tokens: the first memory_count candidates,
\* the next one (if any) not fitting, nothing behind it included.
C2_LongestFittingPrefix ==
    pc = "done" =>
        LET k == ret["memory_count"]
        IN  /\ k = Len(packed)
            /\ k <= Len(ranked_results)
            /\ packed = SubSeq(ranked_results, 1, k)
            /\ ret["total_tokens_estimate"] = PrefixCost(ranked_results, k)
            /\ PrefixCost(ranked_results, k) <= max_tokens
            /\ k < Len(ranked_results) =>
                   ret["total_tokens_estimate"] + Cost(ranked_results[k + 1]) > max_tokens

\* C2 witness: the first candidate is packed, the second does not fit, the
\* third would still fit and is left out.
C2_Witness ==
    /\ pc = "done"
    /\ Len(ranked_results) = 3
    /\ ret["memory_count"] = 1
    /\ total_tokens + Cost(ranked_results[2]) > max_tokens
    /\ total_tokens + Cost(ranked_results[3]) <= max_tokens

\* the value returned when nothing is included
EmptyContext == [context |-> "", memory_count |-> 0, total_tokens_estimate |-> 0]

\* C14: for an empty input, and when the cost of the first candidate
\* already exceeds max_tokens, whatever candidates follow it,
\* assemble_context returns context "", memory_count 0 and
\* total_tokens_estimate 0.
C14_NothingFitsReturnsEmpty ==
    (/\ pc = "done"
     /\ \/ ranked_results = <<>>
        \/ Cost(ranked_results[1]) > max_tokens)
        => ret = EmptyContext

\* C14 witness: the first of three candidates exceeds the budget, the two
\* behind it would each fit, and the empty context was returned.
C14_Witness ==
    /\ pc = "done"
    /\ Len(ranked_results) = 3
    /\ Cost(ranked_results[1]) > max_tokens
    /\ Cost(ranked_results[2]) <= max_tokens
    /\ Cost(ranked_results[3]) <= max_tokens
    /\ ret = EmptyContext

\* max(1, floor(n / 4)) for a text of n characters
TokensOfLength(n) == IF n \div 4 >= 1 THEN n \div 4 ELSE 1

\* the sum of TokensOfLength(Len(line_i) - less) over the first k candidates
\* of s, line_i being the line of the i-th candidate in the context
RECURSIVE SumLineTokens(_, _, _)
SumLineTokens(s, k, less) ==
    IF k = 0 THEN 0
    ELSE SumLineTokens(s, k - 1, less) + TokensOfLength(Len(ContextLine(s[k])) - less)

C28_MonotoneInBudget ==
    pc = "done" =>
        \A b1 \in 1..max_tokens :
            /\ IsPrefix(PackLoop(ranked_results, <<>>, 0, b1)[1], packed)
            /\ assemble_context(ranked_results, b1)["memory_count"] <= ret["memory_count"]
            /\ assemble_context(ranked_results, b1)["total_tokens_estimate"]
                   <= ret["total_tokens_estimate"]

\* C28 witness: two of three candidates included under max_tokens, one
\* under a smaller budget and none under a still smaller one.
C28_Witness ==
    /\ pc = "done"
    /\ Len(ranked_results) = 3
    /\ ret["memory_count"] = 2
    /\ \E b0, b1 \in 1..max_tokens :
        /\ b0 < b1
        /\ assemble_context(ranked_results, b0)["memory_count"] = 0
        /\ assemble_context(ranked_results, b1)["memory_count"] = 1
        /\ assemble_context(ranked_results, b1)["total_tokens_estimate"]
               < ret["total_tokens_estimate"]

\* C29: the context returned is itself within the budget:
\* estimate_tokens(context) <= max_tokens.
C29_ContextWithinBudget ==
    pc = "done" => estimate_tokens(ret["context"]) <= max_tokens

----------------------------------------------------------------------------
(* Claims about the rendered context, checked under SpecFormat *)

\* the number of newline characters in a text
NewlineCount(text) == Cardinality({i \in 1..Len(text) : SubSeq(text, i, i) = "\n"})

\* the line the claim gives for a candidate
RenderedLine(r) ==
    LET content_type == IF "content_type" \in DOMAIN r THEN r["content_type"] ELSE "unknown"
        tags == IF "tags" \in DOMAIN r THEN r["tags"] ELSE <<>>
    IN  IF tags # <<>>
        THEN "- [" \o content_type \o " [" \o JoinTags(tags) \o "]] " \o r["content"]
        ELSE "- [" \o content_type \o "] " \o r["content"]

\* the renderings of the first k candidates of s, a newline between them
RECURSIVE RenderedPrefix(_, _)
RenderedPrefix(s, k) ==
    IF k = 1 THEN RenderedLine(s[1])
    ELSE RenderedPrefix(s, k - 1) \o "\n" \o RenderedLine(s[k])

\* C15: a non-empty result's context is the renderings of the included
\* candidates in order, separated by single newlines, without trailing
\* newline, and it consists of exactly memory_count lines: each included
\* candidate occupies exactly one line.
C15_OneLinePerCandidate ==
    (pc = "done" /\ ret["memory_count"] > 0) =>
        LET context == ret["context"]
            k == ret["memory_count"]
        IN  /\ context = RenderedPrefix(ranked_results, k)
            /\ SubSeq(context, Len(context), Len(context)) # "\n"
            /\ NewlineCount(context) + 1 = k

\* the part of C15 that holds of the code: the context is the renderings
\* joined by single newlines, without trailing newline
C15_RenderingsJoined ==
    (pc = "done" /\ ret["memory_count"] > 0) =>
        /\ ret["context"] = RenderedPrefix(ranked_results, ret["memory_count"])
        /\ SubSeq(ret["context"], Len(ret["context"]), Len(ret["context"])) # "\n"

----------------------------------------------------------------------------
(* Claims about temporal_decay and access_bonus, checked under SpecScore *)

IsDecayCall == pc = "scored" /\ ret["fn"] = "temporal_decay"

IsBonusCall == pc = "scored" /\ ret["fn"] = "access_bonus"

\* C18: temporal_decay never returns a negative value nor one above 1.0,
\* and for a created_at later than the clock it returns exactly 1.0 (the
\* age is taken as 0).
C18_DecayInUnitIntervalFutureIsOne ==
    IsDecayCall =>
        /\ ret["value"] >= 0
        /\ ret["value"] <= ONE6
        /\ ret["created_at"] > ret["clock"] => ret["value"] = ONE6

\* C18 witness: a call with created_at ahead of the clock returned 1.0.
C18_Witness ==
    /\ IsDecayCall
    /\ ret["created_at"] > ret["clock"]
    /\ ret["value"] = ONE6

C20_AccessBonusCapped ==
    IsBonusCall =>
        LET n == ret["access_count"]
        IN  /\ n = 0 => ret["value"] = 0
            /\ n < 10 => ret["value"] = n
            /\ n >= 10 => ret["value"] = 10
            /\ \A m \in AccessCounts : m <= n => access_bonus(m) <= ret["value"]

\* C20 witness: a call with a count above 10 returned 0.1.
C20_Witness ==
    /\ IsBonusCall
    /\ ret["access_count"] > 10
    /\ ret["value"] = 10

----------------------------------------------------------------------------
(* Claims about the pipeline, checked under SpecPipeline *)

\* the step of call c that runs rank_results
RankStep(c) == pc[c] = "start" /\ pc'[c] = "ranked"

\* while mmr_rerank runs in call c its input list, the call's ranked list,
\* stays as it is; while assemble_context runs, so do that list and the
\* list assemble_context was given
LaterStagesLeaveInputs(c) ==
    /\ pc[c] \in {"ranked", "select"} => results'[c] = results[c]
    /\ pc[c] \in {"reranked", "loop"} =>
        /\ results'[c] = results[c]
        /\ ranked_results'[c] = ranked_results[c]

\* C12 as claimed: after rank_results the caller's list holds the same
\* candidates in the same order as before, each differing from its prior
\* state only by the relevance_score attached; mmr_rerank and
\* assemble_context leave their input list and every candidate unchanged.
C12_InputOrderKept ==
    [][\A c \in Calls :
        /\ RankStep(c) =>
            /\ Len(results'[c]) = Len(results[c])
            /\ \A i \in 1..Len(results[c]) :
                /\ HasScore(results'[c][i])
                /\ Unscored(results'[c][i]) = Unscored(results[c][i])
        /\ LaterStagesLeaveInputs(c)]_vars

\* C12 amended: after rank_results the caller's list holds the same
\* candidates, each differing from its prior state only by the
\* relevance_score attached, reordered by non-increasing relevance_score;
\* mmr_rerank and assemble_context leave their input list and every
\* candidate unchanged.
C12_InputSortedInPlace ==
    [][\A c \in Calls :
        /\ RankStep(c) =>
            /\ Len(results'[c]) = Len(results[c])
            /\ \A k \in 1..Len(results[c]) :
                /\ Cardinality({i \in 1..Len(results'[c]) :
                                   results'[c][i]["id"] = results[c][k]["id"]}) = 1
                /\ \E i \in 1..Len(results'[c]) :
                    /\ HasScore(results'[c][i])
                    /\ Unscored(results'[c][i]) = Unscored(results[c][k])
            /\ \A i \in 1..Len(results'[c]) : \A j \in (i + 1)..Len(results'[c]) :
                results'[c][i]["relevance_score"] >= results'[c][j]["relevance_score"]
        /\ LaterStagesLeaveInputs(c)]_vars

\* C12 witness: a call has run all three stages on a list of two that
\* rank_results reordered, and both candidates were packed.
C12_Witness ==
    \E c \in Calls :
        /\ pc[c] = "done"
        /\ Len(given[c]) = 2
        /\ results[c][1]["id"] = given[c][2]["id"]
        /\ results[c][1]["relevance_score"] > results[c][2]["relevance_score"]
        /\ ranked_results[c] = results[c]
        /\ ret[c]["memory_count"] = 2

\* the clock readings call c scored its list with
ReadingsOf(c) == [i \in 1..Len(given[c]) |-> scored_at[c][given[c][i]["id"]]]

\* C13: whatever the interleaving of the two calls' steps, a call returns
\* what the three functions return when run one after the other on its own
\* list, clock readings and budget; and a call that has not begun has had
\* none of its state written by the other.
C13_SameResultAsAlone ==
    \A c \in Calls :
        /\ pc[c] = "done" =>
            ret[c] = assemble_context(
                         mmr_rerank(rank_results(given[c], ReadingsOf(c)),
                                    _MMR_CANDIDATE_POOL, _MMR_LAMBDA),
                         max_tokens[c])
        /\ pc[c] = "start" =>
            /\ given[c] = <<>>
            /\ candidates[c] = <<>>
            /\ selected[c] = <<>>
            /\ ranked_results[c] = <<>>
            /\ packed[c] = <<>>
            /\ ret[c] = <<>>

\* C13 witness: call 1 has returned a non-empty context while call 2, given
\* a different list, is inside the loop of assemble_context, one candidate
\* packed.
C13_Witness ==
    /\ pc[1] = "done"
    /\ ret[1]["memory_count"] >= 1
    /\ pc[2] = "loop"
    /\ Len(packed[2]) = 1
    /\ [i \in 1..Len(given[1]) |-> given[1][i]["content"]]
           # [i \in 1..Len(given[2]) |-> given[2][i]["content"]]

----------------------------------------------------------------------------
(* Claims about estimate_tokens, checked under SpecTokens *)

\* C21: estimate_tokens(s) is max(1, floor(len(s) / 4)): 1 for every string
\* of fewer than 4 characters, the empty string included, the quotient from
\* 4 characters on, and never less than the estimate of a string that is
\* not longer.
C21_TokensFlooredAtLeastOne ==
    pc = "estimated" =>
        LET n == Len(ret["text"])
        IN  /\ ret["value"] >= 1
            /\ n < 4 => ret["value"] = 1
            /\ n >= 4 => ret["value"] * 4 <= n /\ n < (ret["value"] + 1) * 4
            /\ \A t \in Texts : Len(t) <= n => estimate_tokens(t) <= ret["value"]

\* C21 witness: the empty string was estimated at 1 token.
C21_Witness ==
    /\ pc = "estimated"
    /\ ret["text"] = ""
    /\ ret["value"] = 1

====
